---- MODULE Spec2Model ----
(***************************************************************************)
(* The image cleanup scripts of the repository as a state machine:         *)
(*   remove_bg.py       flood fill from the four corners (Segmenter)       *)
(*   clean_artifacts.py largest connected component (Filter)               *)
(*   refine_edges.py    erode + Gaussian blur of the alpha plane (Refiner) *)
(* A raster is a function from coordinates <<x, y>> to <<r, g, b, a>>.     *)
(***************************************************************************)
EXTENDS Integers, Sequences, FiniteSets

VARIABLES width, height, THRESHOLD, readable, orig, prev, pixels, bg_colors,
          queue, visited, popped, pc, status, labels, max_label, runs

vars == <<width, height, THRESHOLD, readable, orig, prev, pixels, bg_colors,
          queue, visited, popped, pc, status, labels, max_label, runs>>

\* ---------------------------------------------------------------- bounds
\* Largest number of pixels (width * height) of a raster given to remove_bg.py.
MaxSegPixels == 6
\* Largest number of pixels of a raster given directly to clean_artifacts.py.
MaxCleanPixels == 7
\* Largest threshold tried (the script's THRESHOLD is a module constant).
MaxT == 3
\* How many times clean_artifacts.py is run in a row on its own output.
MaxRuns == 2

\* THRESHOLD as the script sets it.
DefaultThreshold == 10

\* Pixel values of the rasters given to remove_bg.py: white, a near white at
\* distance 1 from white, and a translucent tint at distance exactly 2 from
\* white and sqrt(5) from the near white.
White == <<255, 255, 255, 255>>
NearWhite == <<254, 255, 255, 255>>
Tinted == <<255, 255, 253, 128>>
SegVals == {White, NearWhite, Tinted}

\* Pixel values of the rasters given directly to clean_artifacts.py.
CleanVals == {<<10, 20, 30, 0>>, <<10, 20, 30, 128>>, <<10, 20, 30, 255>>}

Coords(w, h) == (0 .. w - 1) \X (0 .. h - 1)

Shapes(n) == {s \in (1 .. n) \X (1 .. n) : s[1] * s[2] <= n}

\* ------------------------------------------------------------ remove_bg.py

color_dist_sq(c1, c2) ==
    LET r == c1[1] - c2[1]
        g == c1[2] - c2[2]
        b == c1[3] - c2[3]
    IN  r * r + g * g + b * b

\* color_dist(c1, c2) < T, for an integer T >= 0: sqrt(s) < T iff s < T * T.
DistLessLeq(c1, c2, T) == color_dist_sq(c1, c2) <= T * T

DistLess(c1, c2, T) == color_dist_sq(c1, c2) < T * T

is_bg_first(current_color, bgs, T) == DistLess(current_color, bgs[1], T)

\* Lines 52-56: close to ANY of the corner colours.
is_bg(current_color, bgs, T) ==
    \E i \in 1 .. Len(bgs) : DistLess(current_color, bgs[i], T)

starts(w, h) == <<<<0, 0>>, <<w - 1, 0>>, <<0, h - 1>>, <<w - 1, h - 1>>>>

Dirs == <<<<-1, 0>>, <<1, 0>>, <<0, -1>>, <<0, 1>>>>

TransparentOpaque == <<0, 0, 0, 255>>

\* The value line 41 writes.
Transparent == <<0, 0, 0, 0>>

MarkNone(vis, n) == vis

\* visited.add((nx, ny))
Mark(vis, n) == vis \cup {n}

\* The neighbour loop of one iteration, from direction i on: <<visited, queue>>.
RECURSIVE CheckNeighbors(_, _, _, _, _)
CheckNeighbors(c, i, vis, q, px) ==
    IF i > Len(Dirs) THEN <<vis, q>>
    ELSE LET n == <<c[1] + Dirs[i][1], c[2] + Dirs[i][2]>>
         IN  IF /\ 0 <= n[1] /\ n[1] < width /\ 0 <= n[2] /\ n[2] < height
                /\ n \notin vis
                /\ is_bg(px[n], bg_colors, THRESHOLD)
             THEN CheckNeighbors(c, i + 1, Mark(vis, n), Append(q, n), px)
             ELSE CheckNeighbors(c, i + 1, vis, q, px)

\* Lines 23-33: sample the corner colours, seed the queue and the visited set.
Seed ==
    /\ pc = "open"
    /\ LET st == starts(width, height)
       IN  /\ bg_colors' = [i \in 1 .. 4 |-> pixels[st[i]]]
           /\ queue' = st
           /\ visited' = {st[i] : i \in 1 .. 4}
    /\ pc' = "fill"
    /\ UNCHANGED <<width, height, THRESHOLD, readable, orig, prev, pixels,
                   popped, status, labels, max_label, runs>>

\* Lines 37-60: one iteration of the while loop.
Step ==
    /\ pc = "fill"
    /\ queue # <<>>
    /\ LET c == Head(queue)
           px == [pixels EXCEPT ![c] = Transparent]
           r == CheckNeighbors(c, 1, visited, Tail(queue), px)
       IN  /\ pixels' = px
           /\ visited' = r[1]
           /\ queue' = r[2]
           /\ popped' = Append(popped, c)
    /\ UNCHANGED <<width, height, THRESHOLD, readable, orig, prev, bg_colors,
                   pc, status, labels, max_label, runs>>

\* Line 62: the loop has ended, the raster is saved.
Save ==
    /\ pc = "fill"
    /\ queue = <<>>
    /\ pc' = "saved"
    /\ UNCHANGED <<width, height, THRESHOLD, readable, orig, prev, pixels,
                   bg_colors, queue, visited, popped, status, labels,
                   max_label, runs>>

\* ------------------------------------------------------- clean_artifacts.py

Alpha(img) == [c \in DOMAIN img |-> img[c][4]]

SetAlpha(img, a) ==
    [c \in DOMAIN img |-> <<img[c][1], img[c][2], img[c][3], a[c]>>]

threshold_inv(a) == [c \in DOMAIN a |-> IF a[c] > 0 THEN 0 ELSE 255]

\* cv2.threshold(alpha, 0, 255, cv2.THRESH_BINARY)
threshold(a) == [c \in DOMAIN a |-> IF a[c] > 0 THEN 255 ELSE 0]

Abs(n) == IF n < 0 THEN -n ELSE n

\* connectivity=8: edge- or corner-adjacent.
Adjacent8(c, d) ==
    /\ c # d
    /\ Abs(c[1] - d[1]) <= 1
    /\ Abs(c[2] - d[2]) <= 1

RECURSIVE Grow(_, _)
Grow(S, region) ==
    LET next == S \cup {d \in region : \E c \in S : Adjacent8(c, d)}
    IN  IF next = S THEN S ELSE Grow(next, region)

\* The row-major scan from pixel k on; n labels are given out so far.
RECURSIVE LabelScan(_, _, _, _, _, _)
LabelScan(k, n, lab, thresh, w, h) ==
    IF k >= w * h THEN [num_labels |-> n + 1, labels |-> lab]
    ELSE LET c == <<k % w, k \div w>>
         IN  IF thresh[c] # 0 /\ lab[c] = 0
             THEN LET comp == Grow({c}, {d \in DOMAIN thresh : thresh[d] # 0})
                  IN  LabelScan(k + 1, n + 1,
                                [d \in DOMAIN lab |->
                                    IF d \in comp THEN n + 1 ELSE lab[d]],
                                thresh, w, h)
             ELSE LabelScan(k + 1, n, lab, thresh, w, h)

\* cv2.connectedComponentsWithStats(thresh, connectivity=8): label 0 is the
\* background, labels 1 .. num_labels - 1 the components in scan order.
connectedComponentsWithStats(thresh, w, h) ==
    LET cc == LabelScan(0, 0, [c \in DOMAIN thresh |-> 0], thresh, w, h)
    IN  [num_labels |-> cc.num_labels,
         labels |-> cc.labels,
         areas |-> [l \in 1 .. cc.num_labels - 1 |->
                       Cardinality({c \in DOMAIN thresh : cc.labels[c] = l})]]

SeqMax(s) == CHOOSE m \in {s[i] : i \in 1 .. Len(s)} :
                \A i \in 1 .. Len(s) : s[i] <= m

argmax_last(a) ==
    CHOOSE i \in 0 .. Len(a) - 1 :
        /\ a[i + 1] = SeqMax(a)
        /\ \A j \in i + 1 .. Len(a) - 1 : a[j + 1] < a[i + 1]

\* np.argmax: the first (0-based) index of the largest value.
argmax(a) ==
    CHOOSE i \in 0 .. Len(a) - 1 :
        /\ a[i + 1] = SeqMax(a)
        /\ \A j \in 0 .. i - 1 : a[j + 1] < a[i + 1]

LargestLabelNoOffset(areas) == argmax(areas)

\* max_label = np.argmax(areas) + 1
LargestLabel(areas) == argmax(areas) + 1

RECURSIVE AndBits(_, _, _)
AndBits(a, b, n) ==
    IF n = 0 THEN 0
    ELSE (a % 2) * (b % 2) + 2 * AndBits(a \div 2, b \div 2, n - 1)

bitwise_flat(a, m) == m

\* cv2.bitwise_and on two uint8 planes.
bitwise_and(a, m) == [c \in DOMAIN a |-> AndBits(a[c], m[c], 8)]

MaskOfAllLargest(lab, areas, ml) ==
    [c \in DOMAIN lab |->
        IF lab[c] # 0 /\ areas[lab[c]] = SeqMax(areas) THEN 255 ELSE 0]

\* mask = np.zeros_like(alpha); mask[labels == max_label] = 255
MaskOf(lab, areas, ml) == [c \in DOMAIN lab |-> IF lab[c] = ml THEN 255 ELSE 0]

\* Lines 19-21: the image could not be read.
CleanFail ==
    /\ pc \in {"saved", "cleaned"}
    /\ runs < MaxRuns
    /\ ~readable
    /\ pc' = "error"
    /\ status' = "error"
    /\ UNCHANGED <<width, height, THRESHOLD, readable, orig, prev, pixels,
                   bg_colors, queue, visited, popped, labels, max_label, runs>>

\* Lines 17-56: one run of the script on the raster last written.
Clean ==
    /\ pc \in {"saved", "cleaned"}
    /\ runs < MaxRuns
    /\ readable
    /\ LET img == pixels
           alpha == Alpha(img)
           thresh == threshold(alpha)
           cc == connectedComponentsWithStats(thresh, width, height)
       IN  /\ prev' = img
           /\ labels' = cc.labels
           /\ IF cc.num_labels > 1
              THEN LET ml == LargestLabel(cc.areas)
                       mask == MaskOf(cc.labels, cc.areas, ml)
                   IN  /\ max_label' = ml
                       /\ pixels' = SetAlpha(img, bitwise_and(alpha, mask))
                       /\ status' = "kept"
              ELSE /\ max_label' = 0
                   /\ pixels' = img
                   /\ status' = "no_component"
    /\ pc' = "cleaned"
    /\ runs' = runs + 1
    /\ UNCHANGED <<width, height, THRESHOLD, readable, orig, bg_colors, queue,
                   visited, popped>>

\* --------------------------------------------------------- refine_edges.py

SetMin(S) == CHOOSE m \in S : \A n \in S : m <= n

\* cv2.erode with a 3x3 kernel of ones: the minimum over the neighbourhood,
\* the pixels outside the image left out (the default border value).
erode(a) ==
    [c \in DOMAIN a |->
        SetMin({a[d] : d \in {e \in DOMAIN a : e = c \/ Adjacent8(c, e)}})]

\* BORDER_REFLECT_101, the default border of cv2.GaussianBlur.
Reflect101(i, n) ==
    IF n = 1 THEN 0
    ELSE IF i < 0 THEN -i
    ELSE IF i >= n THEN 2 * n - 2 - i
    ELSE i

\* cv2.GaussianBlur(a, (3, 3), 0): the kernel [1 2 1] / 4 in each direction,
\* rounded to the nearest uint8.
GaussianBlur(a, w, h) ==
    LET kw(d) == IF d = 0 THEN 2 ELSE 1
        at(x, y) == a[<<Reflect101(x, w), Reflect101(y, h)>>]
        sum(c) == LET S == {-1, 0, 1}
                      row(dy) == kw(-1) * at(c[1] - 1, c[2] + dy)
                                 + kw(0) * at(c[1], c[2] + dy)
                                 + kw(1) * at(c[1] + 1, c[2] + dy)
                  IN  kw(-1) * row(-1) + kw(0) * row(0) + kw(1) * row(1)
    IN  [c \in DOMAIN a |-> (sum(c) + 8) \div 16]

\* Lines 23-44: split, erode and blur the alpha plane, merge, write.
Refine ==
    /\ pc = "cleaned"
    /\ readable
    /\ LET a_eroded == erode(Alpha(pixels))
           a_blurred == GaussianBlur(a_eroded, width, height)
       IN  pixels' = SetAlpha(pixels, a_blurred)
    /\ prev' = pixels
    /\ pc' = "refined"
    /\ UNCHANGED <<width, height, THRESHOLD, readable, orig, bg_colors, queue,
                   visited, popped, status, labels, max_label, runs>>

\* ---------------------------------------------------------- specifications

InitRest ==
    /\ prev = orig
    /\ pixels = orig
    /\ bg_colors = <<>>
    /\ queue = <<>>
    /\ visited = {}
    /\ popped = <<>>
    /\ status = "none"
    /\ labels = [c \in DOMAIN orig |-> 0]
    /\ max_label = 0
    /\ runs = 0

\* The pipeline: a raster is opened by remove_bg.py with some threshold.
Init ==
    /\ \E s \in Shapes(MaxSegPixels) : width = s[1] /\ height = s[2]
    /\ THRESHOLD \in 0 .. MaxT
    /\ readable = TRUE
    /\ orig \in [Coords(width, height) -> SegVals]
    /\ pc = "open"
    /\ InitRest

Next == Seed \/ Step \/ Save \/ Clean \/ Refine

Spec == Init /\ [][Next]_vars

\* clean_artifacts.py alone, on any raster or on a path that cannot be read.
InitClean ==
    /\ \E s \in Shapes(MaxCleanPixels) : width = s[1] /\ height = s[2]
    /\ THRESHOLD = DefaultThreshold
    /\ readable \in BOOLEAN
    /\ orig \in [Coords(width, height) -> CleanVals]
    /\ pc = "saved"
    /\ InitRest

NextClean == CleanFail \/ Clean

SpecClean == InitClean /\ [][NextClean]_vars

\* ------------------------------------------------------------------ claims

Corners == {<<0, 0>>, <<width - 1, 0>>, <<0, height - 1>>,
            <<width - 1, height - 1>>}

RGB(p) == <<p[1], p[2], p[3]>>

Adjacent4(c, d) == Abs(c[1] - d[1]) + Abs(c[2] - d[2]) = 1

\* The input colour of c is at a distance below T of an input corner colour.
NearCorner(c, T) ==
    \E k \in Corners : color_dist_sq(orig[c], orig[k]) < T * T

RECURSIVE StepClosure(_, _)
StepClosure(S, T) ==
    LET next == S \cup {d \in DOMAIN orig :
                          NearCorner(d, T) /\ \E c \in S : Adjacent4(c, d)}
    IN  IF next = S THEN S ELSE StepClosure(next, T)

\* The closure of the corners under the step to a 4-adjacent pixel within T.
FloodClosure == StepClosure(Corners, THRESHOLD)

Zeroed == {c \in DOMAIN pixels : pixels[c][4] = 0}

Nonzero(img) == {c \in DOMAIN img : img[c][4] # 0}

Connected8(S) == S = {} \/ Grow({CHOOSE c \in S : TRUE}, S) = S

\* C1: when the flood fill has finished, the pixels with alpha zero (every
\* input alpha is non-zero) are exactly the closure of the corners under the
\* threshold step, and every pixel outside it has its input alpha.
C1_SegmenterClosure ==
    pc = "saved" =>
        /\ Zeroed = FloodClosure
        /\ \A c \in DOMAIN pixels \ FloodClosure : pixels[c][4] = orig[c][4]

\* The fill went past the corners and stopped before the whole raster.
C1_Witness ==
    /\ pc = "saved"
    /\ FloodClosure # Corners
    /\ FloodClosure # DOMAIN pixels
    /\ Zeroed = FloodClosure

\* C2: after each stage the R, G and B of every pixel are those of the input.
C2_RGBInvariant ==
    pc \in {"saved", "cleaned", "refined"} =>
        \A c \in DOMAIN pixels : RGB(pixels[c]) = RGB(orig[c])

\* C3: after the Filter the pixels of non-zero alpha are none or one
\* 8-connected region.
C3_SingleRegion == pc = "cleaned" => Connected8(Nonzero(pixels))

\* The input had several regions and one was kept.
C3_Witness ==
    /\ pc = "cleaned"
    /\ runs = 1
    /\ ~Connected8(Nonzero(prev))
    /\ Nonzero(pixels) # {}

\* C4: the Filter run on its own output writes that output again.
C4_Idempotent == pc = "cleaned" /\ runs >= 2 => pixels = prev

\* The second run ended, and the first input had two regions of the same,
\* largest, area.
C4_Witness ==
    /\ pc = "cleaned"
    /\ runs = 2
    /\ status = "kept"
    /\ LET cc == connectedComponentsWithStats(threshold(Alpha(orig)),
                                              width, height)
       IN  \E i, j \in 1 .. Len(cc.areas) :
               i # j /\ cc.areas[i] = cc.areas[j]
                     /\ cc.areas[i] = SeqMax(cc.areas)

\* C5: a pixel bearing the winning label keeps its input alpha, a value of
\* 1..255, and every other pixel has alpha 0.
C5_AlphaPreserved ==
    pc = "cleaned" /\ status = "kept" =>
        /\ \E c \in DOMAIN labels : labels[c] = max_label
        /\ \A c \in DOMAIN pixels :
               IF labels[c] = max_label
               THEN pixels[c][4] = prev[c][4] /\ prev[c][4] \in 1 .. 255
               ELSE pixels[c][4] = 0

\* A kept pixel of alpha 128, and a pixel of another region.
C5_Witness ==
    /\ pc = "cleaned"
    /\ status = "kept"
    /\ \E c \in DOMAIN pixels : labels[c] = max_label /\ pixels[c][4] = 128
    /\ \E c \in DOMAIN pixels : labels[c] \notin {0, max_label}

\* The closure of the corners under the step to a 4-adjacent pixel whose RGB
\* is that of a corner.
RECURSIVE EqualClosure(_)
EqualClosure(S) ==
    LET next == S \cup {d \in DOMAIN orig :
                          /\ \E k \in Corners : RGB(orig[d]) = RGB(orig[k])
                          /\ \E c \in S : Adjacent4(c, d)}
    IN  IF next = S THEN S ELSE EqualClosure(next)

\* C6 as stated: with T = 0 the pixels reached from the corners whose RGB is
\* that of a corner are removed, and every pixel whose RGB differs from every
\* corner's is retained.
C6_ExactMatchRemoved ==
    pc = "saved" /\ THRESHOLD = 0 =>
        /\ Zeroed = EqualClosure(Corners)
        /\ \A c \in DOMAIN pixels :
               (\A k \in Corners : RGB(orig[c]) # RGB(orig[k]))
                   => pixels[c][4] = orig[c][4]

\* C6 as amended: with T = 0 exactly the corner pixels are removed, and every
\* other pixel, also one whose RGB is that of a corner, is left as it was.
C6_OnlyCornersRemoved ==
    pc = "saved" /\ THRESHOLD = 0 =>
        /\ Zeroed = Corners
        /\ \A c \in DOMAIN pixels \ Corners : pixels[c] = orig[c]

\* With T = 0, a pixel next to a corner and of that corner's colour is kept.
C6_Witness ==
    /\ pc = "saved"
    /\ THRESHOLD = 0
    /\ \E c \in DOMAIN pixels \ Corners : \E k \in Corners :
           /\ Adjacent4(c, k)
           /\ RGB(orig[c]) = RGB(orig[k])
           /\ pixels[c][4] # 0

\* C7: when every pixel of the Filter's input has alpha 0 and the image was
\* read, the run ends in the no-component branch, not in the error exit, and
\* writes the raster it read.
C7_NoComponent ==
    pc \in {"cleaned", "error"} /\ readable /\ Nonzero(prev) = {} =>
        /\ pc = "cleaned"
        /\ status = "no_component"
        /\ pixels = prev

\* A first run on a raster that is transparent everywhere.
C7_Witness ==
    /\ pc = "cleaned"
    /\ runs = 1
    /\ Nonzero(prev) = {}
    /\ status = "no_component"
    /\ pixels = orig

\* The four corner pixels all show the object (the tint), not the backdrop.
CornersCovered == \A k \in Corners : orig[k] = Tinted

Enqueued == popped \o queue

Count(s, c) == Cardinality({i \in 1 .. Len(s) : s[i] = c})

\* C9 as stated: for every width and height no coordinate is enqueued,
\* dequeued or processed twice, and the loop runs at most W * H times.
C9_EachPixelOnce ==
    /\ \A c \in DOMAIN pixels : Count(Enqueued, c) <= 1
    /\ Len(popped) <= width * height

\* C9 as amended: a coordinate that is not a corner is enqueued and processed
\* at most once; with W >= 2 and H >= 2 so is every coordinate, and the loop
\* runs at most W * H times; with W = 1 or H = 1 the coinciding corners are
\* seeded once per entry of the start list, and the loop runs at most
\* W * H + 3 times.
C9_OncePastTheSeeds ==
    /\ \A c \in DOMAIN pixels \ Corners : Count(Enqueued, c) <= 1
    /\ width >= 2 /\ height >= 2 =>
           /\ \A c \in DOMAIN pixels : Count(Enqueued, c) <= 1
           /\ Len(popped) <= width * height
    /\ Len(popped) <= width * height + 3

\* A raster of two rows or more and two columns or more, every pixel of which
\* was processed.
C9_Witness ==
    /\ pc = "saved"
    /\ width >= 2
    /\ height >= 2
    /\ Len(popped) = width * height
    /\ \E c \in DOMAIN pixels : c \notin Corners

LabelsFound == {labels[c] : c \in DOMAIN labels} \ {0}

\* The labels of the largest area, from the label map of the last run.
LargestLabels ==
    LET area == [l \in LabelsFound |->
                    Cardinality({c \in DOMAIN labels : labels[c] = l})]
        most == CHOOSE n \in {area[l] : l \in LabelsFound} :
                    \A l \in LabelsFound : area[l] <= n
    IN  {l \in LabelsFound : area[l] = most}

ScanIndex(c) == c[2] * width + c[1]

\* The pixels of the input's regions of the largest area.
InLargestRegion ==
    LET fg == Nonzero(prev)
        regions == {Grow({c}, fg) : c \in fg}
        most == CHOOSE n \in {Cardinality(r) : r \in regions} :
                    \A r \in regions : Cardinality(r) <= n
    IN  UNION {r \in regions : Cardinality(r) = most}

\* C10: of the components of the largest area the one of the lowest label,
\* the first met in scan order, is kept, and every other pixel has alpha 0.
C10_TieBreak ==
    pc = "cleaned" /\ status = "kept" =>
        LET tied == LargestLabels
            first == CHOOSE c \in InLargestRegion :
                         \A d \in InLargestRegion : ScanIndex(c) <= ScanIndex(d)
        IN  /\ max_label \in tied
            /\ \A l \in tied : max_label <= l
            /\ Nonzero(pixels) = {c \in DOMAIN labels : labels[c] = max_label}
            /\ pixels[first][4] # 0

\* Two components share the largest area.
C10_Witness ==
    /\ pc = "cleaned"
    /\ runs = 1
    /\ status = "kept"
    /\ Cardinality(LargestLabels) >= 2

====
